---- MODULE Spec2Model ----
(***************************************************************************)
(* Model of `meltano run` (src/meltano/cli/run.py): the click command      *)
(* `run` and its helper `_run_blocks`.                                     *)
(*                                                                         *)
(* The command is one sequential coroutine.  Every call it makes on a      *)
(* collaborator (the tracker, the validator, a block's run(), the legacy   *)
(* tracker) is one step of the model and is appended to `trace`, so that   *)
(* the order of the calls can be stated.  The block parser and the         *)
(* validator live in meltano.core.block.parser; they are modelled from the *)
(* design document (FindBlocks, ValidateBlockSets).                        *)
(***************************************************************************)
EXTENDS Integers, Sequences, FiniteSets, TLC

\* ---------------------------------------------------------------- bounds
\* Longest token list given on the command line.
MaxTokens == 3

\* Longest token list given to the parser in SpecParse.
MaxParseTokens == 4

\* ------------------------------------------------------------ the registry
\* Plugin registry: the tokens the command line may carry and their role.
\* Plugin names are free text: two of them contain the separator "-to-".
Extractors == {"tap-a", "tap-c", "tap-a-to-tap-c"}
Loaders == {"target-b", "target-d", "tap-c-to-target-d"}
CommandTokens == {"dbt:run"}
UnknownTokens == {"bogus"}

\* The tokens of the command lines of Spec, and those of SpecParse.
Tokens == {"tap-a", "target-b", "dbt:run", "bogus"}
ParseTokens == Extractors \cup Loaders \cup CommandTokens

\* Active environment names; "" is "no active environment".
Environments == {"", "prod"}

\* Exit code lists a RunnerError may carry.
ExitCodes == {<<1>>}

\* Texts a unit gives the RunnerError it raises.
RunnerMessages == {<<"Extractor failed">>, <<"Loader failed">>}

\* Resolution of plugin:command syntax into (plugin identity, command name).
PluginOf(tok) == IF tok = "dbt:run" THEN "dbt" ELSE tok
CommandOf(tok) == IF tok = "dbt:run" THEN "run" ELSE ""

\* All sequences over S of length at most n.
SeqUpTo(S, n) == UNION {[1..k -> S] : k \in 0..n}

\* ------------------------------------------------------------------ state
VARIABLES
  blocks,            \* the tokens argument of the command
  full_refresh, no_state_update, force, dry_run,   \* the command's flags
  environment,       \* project.active_environment name ("" when none)
  log_level_override,\* ProjectSettingsService.config_override has cli.log_level
  validator_fault,   \* validate_block_sets raises instead of returning
  console_log_level, \* level of the 'console' log handler
  parsed_blocks,     \* the plan built by the parser
  idx,               \* enumerate() index of the for loop of _run_blocks
  tracking_ctx,      \* local tracking_ctx of _run_blocks
  tracker_contexts,  \* contexts currently attached to the tracker
  trace,             \* calls made on the collaborators, in order
  pending,           \* exception in flight inside the command (<<>> if none)
  result,            \* how the command ended
  pc,                \* position of the coroutine
  first              \* SpecTwice: pre-execution outcome of the first invocation

inputs == <<blocks, full_refresh, no_state_update, force, environment,
            log_level_override, validator_fault>>
vars == <<blocks, full_refresh, no_state_update, force, dry_run, environment,
          log_level_override, validator_fault, console_log_level,
          parsed_blocks, idx, tracking_ctx, tracker_contexts, trace, pending,
          result, pc, first>>

\* ------------------------------------------------------------- exceptions
\* An exception value: its class, where it was raised (the index of the unit
\* whose run() raised it, -1 for the parser, -2 for the validator, -3 for the
\* command itself), its exit codes and its __cause__ (<<>> or <<exception>>).
\* `message` is str(exception), as the list of the texts it is made of.
Exc(type, origin, exitcodes) ==
  [type |-> type, origin |-> origin, exitcodes |-> exitcodes, cause |-> <<>>,
   message |-> <<>>]

\* raise CliError(f"Run invocation could not be completed as block failed:
\* {err}") from err
CliErrorFrom(err) ==
  [type |-> "CliError", origin |-> -3, exitcodes |-> <<>>, cause |-> <<err>>,
   message |-> <<"Run invocation could not be completed as block failed: ">>
               \o err.message]

\* raise CliError("Some ExtractLoadBlocks set failed validation.")
CliErrorPlain ==
  [type |-> "CliError", origin |-> -3, exitcodes |-> <<>>, cause |-> <<>>,
   message |-> <<"Some ExtractLoadBlocks set failed validation.">>]

NotEnded == [how |-> "running", error |-> <<>>]
Returned == [how |-> "returned", error |-> <<>>]
Raised(err) == [how |-> "raised", error |-> <<err>>]

\* ------------------------------------------------------- parser (design)
\* State-ID Deriver: {environment}:{extractor}-to-{loader}; without an active
\* environment no state id is generated.
DeriveStateId(env, extractor, loader) ==
  IF env = "" THEN "" ELSE env \o ":" \o extractor \o "-to-" \o loader

\* A pipeline unit (BlockSet) over the plugins `plugins`.
PipelineUnit(plugins, env, fr, nsu, f) ==
  [type |-> "BlockSet", blocks |-> plugins, command |-> "",
   state_id |-> IF Len(plugins) = 2
                THEN DeriveStateId(env, plugins[1], plugins[2]) ELSE "",
   full_refresh |-> fr, no_state_update |-> nsu, force |-> f]

\* A command unit (PluginCommandBlock); run flags do not apply to it.
CommandUnit(tok) ==
  [type |-> "PluginCommandBlock", blocks |-> <<PluginOf(tok)>>,
   command |-> CommandOf(tok), state_id |-> "",
   full_refresh |-> FALSE, no_state_update |-> FALSE, force |-> FALSE]

\* Block Parser with the Token Classifier: find_blocks(cur) scans the tokens
\* from offset cur, left to right.  The result is the list of units, or the
\* first error met.
RECURSIVE FindBlocks(_, _, _, _, _, _)
FindBlocks(toks, cur, env, fr, nsu, f) ==
  IF cur >= Len(toks) THEN [error |-> <<>>, units |-> <<>>]
  ELSE
    LET tok == toks[cur + 1]
        Rest(n, unit) ==
          LET r == FindBlocks(toks, cur + n, env, fr, nsu, f)
          IN  IF r.error # <<>> THEN r
              ELSE [error |-> <<>>, units |-> <<unit>> \o r.units]
    IN  IF tok \in UnknownTokens
          THEN [error |-> <<Exc("ParseError", -1, <<>>)>>, units |-> <<>>]
        ELSE IF tok \in CommandTokens
          THEN Rest(1, CommandUnit(tok))
        ELSE IF tok \in Extractors
          THEN IF cur + 1 < Len(toks) /\ toks[cur + 2] \in Loaders
                 THEN Rest(2, PipelineUnit(<<tok, toks[cur + 2]>>,
                                           env, fr, nsu, f))
               ELSE IF cur + 1 < Len(toks) /\ toks[cur + 2] \in Extractors
                 THEN [error |-> <<Exc("ClassificationError", -1, <<>>)>>,
                       units |-> <<>>]
               ELSE Rest(1, PipelineUnit(<<tok>>, env, fr, nsu, f))
        ELSE [error |-> <<Exc("ClassificationError", -1, <<>>)>>,
              units |-> <<>>]

\* Plan Validator: every pipeline unit has both an extractor and a loader.
ValidateBlockSets(plan) ==
  \A i \in 1..Len(plan) :
    plan[i].type = "BlockSet" => Len(plan[i].blocks) = 2

\* PluginsTrackingContext.from_block(blk): derived from the unit's plugins.
FromBlock(blk) == [plugins |-> blk.blocks, command |-> blk.command]
NoContext == [plugins |-> <<>>, command |-> ""]

\* blk.__class__.__name__
BlkName(blk) == blk.type

\* ------------------------------------------------------------- the trace
\* One entry per call on a collaborator.  `contexts` is what was attached to
\* the tracker when the call was made; `unit` is the index of the unit the
\* call is about (-1 when it is about the run as a whole); `error` is the
\* exception a call raised (<<>> when it returned).
Call(call, event, unit, blk_name, outcome, error) ==
  [call |-> call, event |-> event, unit |-> unit, blk_name |-> blk_name,
   outcome |-> outcome, error |-> error, contexts |-> tracker_contexts]

TrackCommandEvent(event) ==
  Call("track_command_event", event, -1, "", "", <<>>)
TrackBlockEvent(blk_name, event) ==
  Call("track_block_event", event, idx, blk_name, "", <<>>)

CurrentBlk == parsed_blocks[idx + 1]

\* ------------------------------------------------------------------- Init
Init ==
  /\ blocks \in SeqUpTo(Tokens, MaxTokens)
  /\ full_refresh \in BOOLEAN
  /\ no_state_update \in BOOLEAN
  /\ force \in BOOLEAN
  /\ dry_run \in BOOLEAN
  /\ environment \in Environments
  /\ log_level_override \in BOOLEAN
  /\ validator_fault \in BOOLEAN
  /\ console_log_level = "info"
  /\ parsed_blocks = <<>>
  /\ idx = -1
  /\ tracking_ctx = NoContext
  /\ tracker_contexts = <<>>
  /\ trace = <<>>
  /\ pending = <<>>
  /\ result = NotEnded
  /\ pc = "start"
  /\ first = <<>>

\* ------------------------------------------------------------ run(): head
\* if dry_run: if not config_override.get("cli.log_level"):
\*     change_console_log_level()
ChangeConsoleLogLevel ==
  /\ pc = "start"
  /\ console_log_level' =
       IF dry_run /\ ~log_level_override THEN "debug" ELSE console_log_level
  /\ pc' = "parse"
  /\ UNCHANGED <<inputs, dry_run, parsed_blocks, idx, tracking_ctx,
                 tracker_contexts, trace, pending, result, first>>

\* Variant of ParseBlocks: a parser error is treated like an empty plan, the
\* command returns instead of raising.
ParseBlocks_ErrorNotRaised ==
  /\ pc = "parse"
  /\ LET r == FindBlocks(blocks, 0, environment, full_refresh,
                         no_state_update, force)
     IN  IF r.error # <<>> \/ r.units = <<>>
           THEN /\ trace' = Append(trace, TrackCommandEvent("aborted"))
                /\ result' = Returned
                /\ pc' = "done"
                /\ UNCHANGED parsed_blocks
         ELSE /\ parsed_blocks' = r.units
              /\ pc' = "validate"
              /\ UNCHANGED <<trace, result>>
  /\ UNCHANGED <<inputs, dry_run, console_log_level, idx, tracking_ctx,
                 tracker_contexts, pending, first>>

\* Variant of ParseBlocks: the parser is not given the active
\* environment.
ParseBlocks_NoEnvironment ==
  /\ pc = "parse"
  /\ LET r == FindBlocks(blocks, 0, "", full_refresh,
                         no_state_update, force)
     IN  IF r.error # <<>>
           THEN /\ trace' = Append(trace, TrackCommandEvent("aborted"))
                /\ result' = Raised(r.error[1])
                /\ pc' = "done"
                /\ UNCHANGED parsed_blocks
         ELSE IF r.units = <<>>
           THEN /\ trace' = Append(trace, TrackCommandEvent("aborted"))
                /\ result' = Returned
                /\ pc' = "done"
                /\ UNCHANGED parsed_blocks
         ELSE /\ parsed_blocks' = r.units
              /\ pc' = "validate"
              /\ UNCHANGED <<trace, result>>
  /\ UNCHANGED <<inputs, dry_run, console_log_level, idx, tracking_ctx,
                 tracker_contexts, pending, first>>

\* Variant of ParseBlocks: parser.find_blocks(1).
ParseBlocks_FromOffset1 ==
  /\ pc = "parse"
  /\ LET r == FindBlocks(blocks, 1, environment, full_refresh,
                         no_state_update, force)
     IN  IF r.error # <<>>
           THEN /\ trace' = Append(trace, TrackCommandEvent("aborted"))
                /\ result' = Raised(r.error[1])
                /\ pc' = "done"
                /\ UNCHANGED parsed_blocks
         ELSE IF r.units = <<>>
           THEN /\ trace' = Append(trace, TrackCommandEvent("aborted"))
                /\ result' = Returned
                /\ pc' = "done"
                /\ UNCHANGED parsed_blocks
         ELSE /\ parsed_blocks' = r.units
              /\ pc' = "validate"
              /\ UNCHANGED <<trace, result>>
  /\ UNCHANGED <<inputs, dry_run, console_log_level, idx, tracking_ctx,
                 tracker_contexts, pending, first>>

\* Variant of ParseBlocks: the plan is kept in reverse order.
ParseBlocks_Reversed ==
  /\ pc = "parse"
  /\ LET r == FindBlocks(blocks, 0, environment, full_refresh,
                         no_state_update, force)
     IN  IF r.error # <<>>
           THEN /\ trace' = Append(trace, TrackCommandEvent("aborted"))
                /\ result' = Raised(r.error[1])
                /\ pc' = "done"
                /\ UNCHANGED parsed_blocks
         ELSE IF r.units = <<>>
           THEN /\ trace' = Append(trace, TrackCommandEvent("aborted"))
                /\ result' = Returned
                /\ pc' = "done"
                /\ UNCHANGED parsed_blocks
         ELSE /\ parsed_blocks' = [i \in 1..Len(r.units) |-> r.units[Len(r.units) + 1 - i]]
              /\ pc' = "validate"
              /\ UNCHANGED <<trace, result>>
  /\ UNCHANGED <<inputs, dry_run, console_log_level, idx, tracking_ctx,
                 tracker_contexts, pending, first>>

\* Variant of ParseBlocks: the plan is not tested for emptiness.
ParseBlocks_EmptyPlanProceeds ==
  /\ pc = "parse"
  /\ LET r == FindBlocks(blocks, 0, environment, full_refresh,
                         no_state_update, force)
     IN  IF r.error # <<>>
           THEN /\ trace' = Append(trace, TrackCommandEvent("aborted"))
                /\ result' = Raised(r.error[1])
                /\ pc' = "done"
                /\ UNCHANGED parsed_blocks
         ELSE /\ parsed_blocks' = r.units
              /\ pc' = "validate"
              /\ UNCHANGED <<trace, result>>
  /\ UNCHANGED <<inputs, dry_run, console_log_level, idx, tracking_ctx,
                 tracker_contexts, pending, first>>

\* try: parser = BlockParser(...); parsed_blocks = list(parser.find_blocks(0))
\* an empty plan and a parser error both end the run with "aborted".
ParseBlocks ==
  /\ pc = "parse"
  /\ LET r == FindBlocks(blocks, 0, environment, full_refresh,
                         no_state_update, force)
     IN  IF r.error # <<>>
           THEN /\ trace' = Append(trace, TrackCommandEvent("aborted"))
                /\ result' = Raised(r.error[1])
                /\ pc' = "done"
                /\ UNCHANGED parsed_blocks
         ELSE IF r.units = <<>>
           THEN /\ trace' = Append(trace, TrackCommandEvent("aborted"))
                /\ result' = Returned
                /\ pc' = "done"
                /\ UNCHANGED parsed_blocks
         ELSE /\ parsed_blocks' = r.units
              /\ pc' = "validate"
              /\ UNCHANGED <<trace, result>>
  /\ UNCHANGED <<inputs, dry_run, console_log_level, idx, tracking_ctx,
                 tracker_contexts, pending, first>>

\* Variant of Validate: the answer of validate_block_sets is only logged and
\* execution starts whatever it is.
Validate_NotEnforced ==
  /\ pc = "validate"
  /\ IF validator_fault
       THEN /\ trace' = Append(trace,
                 Call("validate_block_sets", "", -1, "", "raised",
                      <<Exc("Exception", -2, <<>>)>>))
            /\ result' = Raised(Exc("Exception", -2, <<>>))
            /\ pc' = "done"
       ELSE /\ trace' = Append(trace,
                 Call("validate_block_sets", "", -1, "",
                      IF ValidateBlockSets(parsed_blocks)
                        THEN "true" ELSE "false", <<>>))
            /\ pc' = "for"
            /\ UNCHANGED result
  /\ UNCHANGED <<inputs, dry_run, console_log_level, parsed_blocks, idx,
                 tracking_ctx, tracker_contexts, pending, first>>

\* Variant of Validate: a dry run skips validation.
Validate_SkippedInDryRun ==
  /\ pc = "validate"
  /\ IF dry_run
       THEN /\ pc' = "for"
            /\ UNCHANGED <<trace, result>>
     ELSE IF validator_fault
       THEN /\ trace' = Append(trace,
                 Call("validate_block_sets", "", -1, "", "raised",
                      <<Exc("Exception", -2, <<>>)>>))
            /\ result' = Raised(Exc("Exception", -2, <<>>))
            /\ pc' = "done"
     ELSE IF ValidateBlockSets(parsed_blocks)
       THEN /\ trace' = Append(trace,
                 Call("validate_block_sets", "", -1, "", "true", <<>>))
            /\ pc' = "for"
            /\ UNCHANGED result
     ELSE /\ trace' = Append(Append(trace,
                 Call("validate_block_sets", "", -1, "", "false", <<>>)),
                 TrackCommandEvent("aborted"))
          /\ result' = Raised(CliErrorPlain)
          /\ pc' = "done"
  /\ UNCHANGED <<inputs, dry_run, console_log_level, parsed_blocks, idx,
                 tracking_ctx, tracker_contexts, pending, first>>

\* if validate_block_sets(logger, parsed_blocks): ... else: aborted, CliError
\* An exception of the validator is not caught by the command.
Validate ==
  /\ pc = "validate"
  /\ IF validator_fault
       THEN /\ trace' = Append(trace,
                 Call("validate_block_sets", "", -1, "", "raised",
                      <<Exc("Exception", -2, <<>>)>>))
            /\ result' = Raised(Exc("Exception", -2, <<>>))
            /\ pc' = "done"
     ELSE IF ValidateBlockSets(parsed_blocks)
       THEN /\ trace' = Append(trace,
                 Call("validate_block_sets", "", -1, "", "true", <<>>))
            /\ pc' = "for"
            /\ UNCHANGED result
     ELSE /\ trace' = Append(Append(trace,
                 Call("validate_block_sets", "", -1, "", "false", <<>>)),
                 TrackCommandEvent("aborted"))
          /\ result' = Raised(CliErrorPlain)
          /\ pc' = "done"
  /\ UNCHANGED <<inputs, dry_run, console_log_level, parsed_blocks, idx,
                 tracking_ctx, tracker_contexts, pending, first>>

\* ----------------------------------------------------------- _run_blocks
\* Variant of ForNext: the loop runs over parsed_blocks[1:], so the first
\* unit of the plan is skipped.
ForNext_SkipsFirst ==
  /\ pc = "for"
  /\ LET nxt == IF idx = -1 THEN 1 ELSE idx + 1
     IN  IF nxt < Len(parsed_blocks)
           THEN /\ idx' = nxt
                /\ tracking_ctx' = FromBlock(parsed_blocks[nxt + 1])
                /\ pc' = "with_initialized"
           ELSE /\ pc' = "run_blocks_returned"
                /\ UNCHANGED <<idx, tracking_ctx>>
  /\ UNCHANGED <<inputs, dry_run, console_log_level, parsed_blocks,
                 tracker_contexts, trace, pending, result, first>>

\* for idx, blk in enumerate(parsed_blocks):
\*     blk_name = blk.__class__.__name__
\*     tracking_ctx = PluginsTrackingContext.from_block(blk)
\* When the plan is exhausted _run_blocks returns.
ForNext ==
  /\ pc = "for"
  /\ IF idx + 1 < Len(parsed_blocks)
       THEN /\ idx' = idx + 1
            /\ tracking_ctx' = FromBlock(parsed_blocks[idx + 2])
            /\ pc' = "with_initialized"
       ELSE /\ pc' = "run_blocks_returned"
            /\ UNCHANGED <<idx, tracking_ctx>>
  /\ UNCHANGED <<inputs, dry_run, console_log_level, parsed_blocks,
                 tracker_contexts, trace, pending, result, first>>

\* with tracker.with_contexts(tracking_ctx): entering the block attaches the
\* context to the tracker.
WithContexts(from, to) ==
  /\ pc = from
  /\ tracker_contexts' = Append(tracker_contexts, tracking_ctx)
  /\ pc' = to
  /\ UNCHANGED <<inputs, dry_run, console_log_level, parsed_blocks, idx,
                 tracking_ctx, trace, pending, result, first>>

\* tracker.track_block_event(blk_name, event)
EmitBlockEvent(from, event, to) ==
  /\ pc = from
  /\ trace' = Append(trace, TrackBlockEvent(BlkName(CurrentBlk), event))
  /\ pc' = to
  /\ UNCHANGED <<inputs, dry_run, console_log_level, parsed_blocks, idx,
                 tracking_ctx, tracker_contexts, pending, result, first>>

\* Variant of ExitContexts: the context stays attached to the tracker.
ExitContexts_Leaks(from, to) ==
  /\ pc = from
  /\ pc' = to
  /\ UNCHANGED <<inputs, dry_run, console_log_level, parsed_blocks, idx,
                 tracking_ctx, tracker_contexts, trace, pending, result,
                 first>>

\* Leaving the with block detaches the context again.
ExitContexts(from, to) ==
  /\ pc = from
  /\ tracker_contexts' = SubSeq(tracker_contexts, 1, Len(tracker_contexts) - 1)
  /\ pc' = to
  /\ UNCHANGED <<inputs, dry_run, console_log_level, parsed_blocks, idx,
                 tracking_ctx, trace, pending, result, first>>

\* with tracker.with_contexts(tracking_ctx):
\*     tracker.track_block_event(blk_name, BlockEvents.initialized)
WithInitialized == WithContexts("with_initialized", "track_initialized")
TrackInitialized ==
  EmitBlockEvent("track_initialized", "initialized", "exit_initialized")
ExitInitialized == ExitContexts("exit_initialized", "if_dry_run")

\* Variant of DryRunContinue: break instead of continue.
DryRunContinue_Break ==
  /\ pc = "if_dry_run"
  /\ dry_run
  /\ pc' = "run_blocks_returned"
  /\ UNCHANGED <<inputs, dry_run, console_log_level, parsed_blocks, idx,
                 tracking_ctx, tracker_contexts, trace, pending, result,
                 first>>

\* if dry_run: logger.info("Dry run, but would have run block ..."); continue
DryRunContinue ==
  /\ pc = "if_dry_run"
  /\ dry_run
  /\ pc' = "for"
  /\ UNCHANGED <<inputs, dry_run, console_log_level, parsed_blocks, idx,
                 tracking_ctx, tracker_contexts, trace, pending, result,
                 first>>

\* Variant of BlkRun: blk.run() is called without await, so the engine goes
\* on without waiting for the unit to settle.
BlkRun_NotAwaited ==
  /\ pc = "if_dry_run"
  /\ ~dry_run
  /\ trace' = Append(trace, Call("run", "", idx, BlkName(CurrentBlk), "", <<>>))
  /\ pc' = "with_completed"
  /\ UNCHANGED <<inputs, dry_run, console_log_level, parsed_blocks, idx,
                 tracking_ctx, tracker_contexts, pending, result, first>>

\* try: await blk.run() -- the call is made and the coroutine is suspended.
BlkRun ==
  /\ pc = "if_dry_run"
  /\ ~dry_run
  /\ trace' = Append(trace, Call("run", "", idx, BlkName(CurrentBlk), "", <<>>))
  /\ pc' = "await_run"
  /\ UNCHANGED <<inputs, dry_run, console_log_level, parsed_blocks, idx,
                 tracking_ctx, tracker_contexts, pending, result, first>>

\* blk.run() returns.
RunReturns ==
  /\ pc = "await_run"
  /\ trace' = Append(trace, Call("run_settled", "", idx, BlkName(CurrentBlk),
                                 "ok", <<>>))
  /\ pc' = "with_completed"
  /\ UNCHANGED <<inputs, dry_run, console_log_level, parsed_blocks, idx,
                 tracking_ctx, tracker_contexts, pending, result, first>>

\* blk.run() raises RunnerError: except RunnerError as err: logger.error(...)
RunRaisesRunnerError ==
  /\ pc = "await_run"
  /\ \E codes \in ExitCodes, msg \in RunnerMessages :
       /\ pending' = <<[Exc("RunnerError", idx, codes) EXCEPT !.message = msg]>>
       /\ trace' = Append(trace,
                          Call("run_settled", "", idx, BlkName(CurrentBlk),
                               "RunnerError", pending'))
  /\ pc' = "with_failed_runner"
  /\ UNCHANGED <<inputs, dry_run, console_log_level, parsed_blocks, idx,
                 tracking_ctx, tracker_contexts, result, first>>

\* blk.run() raises another exception: except Exception as bare_err
RunRaisesException ==
  /\ pc = "await_run"
  /\ pending' = <<Exc("Exception", idx, <<>>)>>
  /\ trace' = Append(trace, Call("run_settled", "", idx, BlkName(CurrentBlk),
                                 "Exception", pending'))
  /\ pc' = "with_failed_bare"
  /\ UNCHANGED <<inputs, dry_run, console_log_level, parsed_blocks, idx,
                 tracking_ctx, tracker_contexts, result, first>>

\* except RunnerError: with tracker.with_contexts(tracking_ctx):
\*     tracker.track_block_event(blk_name, BlockEvents.failed)
WithFailedRunner == WithContexts("with_failed_runner", "track_failed_runner")

\* Variant of TrackFailedRunner: the handler reports BlockEvents.completed.
TrackFailedRunner_Completed ==
  EmitBlockEvent("track_failed_runner", "completed", "exit_failed_runner")

TrackFailedRunner ==
  EmitBlockEvent("track_failed_runner", "failed", "exit_failed_runner")
ExitFailedRunner == ExitContexts("exit_failed_runner", "raise_cli_error")

\* Variant of RaiseCliError: the RunnerError is logged and swallowed and the
\* loop goes on with the next unit.
RaiseCliError_Continue ==
  /\ pc = "raise_cli_error"
  /\ pending' = <<>>
  /\ pc' = "for"
  /\ UNCHANGED <<inputs, dry_run, console_log_level, parsed_blocks, idx,
                 tracking_ctx, tracker_contexts, trace, result, first>>

\* Variant of RaiseCliError: a unit that failed is run a second time before
\* the run is given up.
RaiseCliError_RetryOnce ==
  /\ pc = "raise_cli_error"
  /\ IF Cardinality({p \in 1..Len(trace) :
                       trace[p].call = "run" /\ trace[p].unit = idx}) < 2
       THEN /\ pending' = <<>>
            /\ pc' = "if_dry_run"
       ELSE /\ pending' = <<CliErrorFrom(pending[1])>>
            /\ pc' = "run_blocks_raised"
  /\ UNCHANGED <<inputs, dry_run, console_log_level, parsed_blocks, idx,
                 tracking_ctx, tracker_contexts, trace, result, first>>

\* Variant of RaiseCliError: raise CliError(...) without "from err".
RaiseCliError_NoCause ==
  /\ pc = "raise_cli_error"
  /\ pending' = <<[CliErrorFrom(pending[1]) EXCEPT !.cause = <<>>]>>
  /\ pc' = "run_blocks_raised"
  /\ UNCHANGED <<inputs, dry_run, console_log_level, parsed_blocks, idx,
                 tracking_ctx, tracker_contexts, trace, result, first>>

\* raise CliError(f"Run invocation could not be completed ...") from err
RaiseCliError ==
  /\ pc = "raise_cli_error"
  /\ pending' = <<CliErrorFrom(pending[1])>>
  /\ pc' = "run_blocks_raised"
  /\ UNCHANGED <<inputs, dry_run, console_log_level, parsed_blocks, idx,
                 tracking_ctx, tracker_contexts, trace, result, first>>

\* except Exception: with tracker.with_contexts(tracking_ctx):
\*     tracker.track_block_event(blk_name, BlockEvents.failed)
WithFailedBare == WithContexts("with_failed_bare", "track_failed_bare")
TrackFailedBare ==
  EmitBlockEvent("track_failed_bare", "failed", "exit_failed_bare")
ExitFailedBare == ExitContexts("exit_failed_bare", "raise_bare_err")

\* Variant of RaiseBareErr: the exception is wrapped like a RunnerError.
RaiseBareErr_Wrapped ==
  /\ pc = "raise_bare_err"
  /\ pending' = <<CliErrorFrom(pending[1])>>
  /\ pc' = "run_blocks_raised"
  /\ UNCHANGED <<inputs, dry_run, console_log_level, parsed_blocks, idx,
                 tracking_ctx, tracker_contexts, trace, result, first>>

\* raise bare_err
RaiseBareErr ==
  /\ pc = "raise_bare_err"
  /\ pc' = "run_blocks_raised"
  /\ UNCHANGED <<inputs, dry_run, console_log_level, parsed_blocks, idx,
                 tracking_ctx, tracker_contexts, trace, pending, result,
                 first>>

\* logger.info("Block run completed.", success=True)
\* with tracker.with_contexts(tracking_ctx):
\*     tracker.track_block_event(blk_name, BlockEvents.completed)
WithCompleted == WithContexts("with_completed", "track_completed")
TrackCompleted ==
  EmitBlockEvent("track_completed", "completed", "exit_completed")
ExitCompleted == ExitContexts("exit_completed", "for")

\* ------------------------------------------------------------ run(): tail
\* Variant of RunBlocksRaised: the legacy tracker is called on failure too.
RunBlocksRaised_TracksRun ==
  /\ pc = "run_blocks_raised"
  /\ trace' = Append(Append(trace, TrackCommandEvent("failed")),
                     Call("track_meltano_run", "", -1, "", "", <<>>))
  /\ result' = Raised(pending[1])
  /\ pending' = <<>>
  /\ pc' = "done"
  /\ UNCHANGED <<inputs, dry_run, console_log_level, parsed_blocks, idx,
                 tracking_ctx, tracker_contexts, first>>

\* except Exception as err: tracker.track_command_event(CliEvent.failed);
\*     raise err
RunBlocksRaised ==
  /\ pc = "run_blocks_raised"
  /\ trace' = Append(trace, TrackCommandEvent("failed"))
  /\ result' = Raised(pending[1])
  /\ pending' = <<>>
  /\ pc' = "done"
  /\ UNCHANGED <<inputs, dry_run, console_log_level, parsed_blocks, idx,
                 tracking_ctx, tracker_contexts, first>>

\* tracker.track_command_event(CliEvent.completed)
\* legacy_tracker.track_meltano_run(blocks)
RunBlocksReturned ==
  /\ pc = "run_blocks_returned"
  /\ trace' = Append(Append(trace, TrackCommandEvent("completed")),
                     Call("track_meltano_run", "", -1, "", "", <<>>))
  /\ result' = Returned
  /\ pc' = "done"
  /\ UNCHANGED <<inputs, dry_run, console_log_level, parsed_blocks, idx,
                 tracking_ctx, tracker_contexts, pending, first>>

\* ---------------------------------------------------------- specification
RunBlocks ==
  \/ ForNext
  \/ WithInitialized \/ TrackInitialized \/ ExitInitialized
  \/ DryRunContinue
  \/ BlkRun
  \/ RunReturns \/ RunRaisesRunnerError \/ RunRaisesException
  \/ WithFailedRunner \/ TrackFailedRunner \/ ExitFailedRunner
  \/ RaiseCliError
  \/ WithFailedBare \/ TrackFailedBare \/ ExitFailedBare
  \/ RaiseBareErr
  \/ WithCompleted \/ TrackCompleted \/ ExitCompleted

Next ==
  \/ ChangeConsoleLogLevel
  \/ ParseBlocks
  \/ Validate
  \/ RunBlocks
  \/ RunBlocksRaised
  \/ RunBlocksReturned

Spec == Init /\ [][Next]_vars

\* The coroutine is never left suspended for ever: every await of blk.run()
\* settles and every other step is taken as soon as it is reached.
SpecFair == Init /\ [][Next]_vars /\ WF_vars(Next)

TypeOK ==
  /\ pc \in {"start", "parse", "validate", "for", "with_initialized",
             "track_initialized", "exit_initialized", "if_dry_run",
             "await_run", "with_failed_runner", "track_failed_runner",
             "exit_failed_runner", "raise_cli_error", "with_failed_bare",
             "track_failed_bare", "exit_failed_bare", "raise_bare_err",
             "with_completed", "track_completed", "exit_completed",
             "run_blocks_raised", "run_blocks_returned", "done"}
  /\ idx \in -1..MaxTokens
  /\ Len(parsed_blocks) <= Len(blocks)
  /\ Len(tracker_contexts) <= 1

\* ------------------------------------------------- two invocations in a row
\* The same command line is given twice, first without and then with
\* --dry-run.  Once the first invocation is past validation (or has ended
\* before it) its pre-execution outcome is kept in `first` and the command
\* starts again with a fresh tracker and the default console log level.
InvokeWithDryRun ==
  /\ first = <<>>
  /\ ~dry_run
  /\ pc \in {"for", "done"}
  /\ first' = <<[parsed_blocks |-> parsed_blocks, trace |-> trace,
                 result |-> result, pc |-> pc,
                 console_log_level |-> console_log_level]>>
  /\ dry_run' = TRUE
  /\ console_log_level' = "info"
  /\ parsed_blocks' = <<>>
  /\ idx' = -1
  /\ tracking_ctx' = NoContext
  /\ tracker_contexts' = <<>>
  /\ trace' = <<>>
  /\ pending' = <<>>
  /\ result' = NotEnded
  /\ pc' = "start"
  /\ UNCHANGED inputs

InitTwice == Init /\ ~dry_run

NextTwice ==
  \/ ChangeConsoleLogLevel
  \/ ParseBlocks
  \/ Validate
  \/ InvokeWithDryRun

SpecTwice == InitTwice /\ [][NextTwice]_vars

\* ------------------------------------------------------ the parser alone
\* The command up to the end of parsing, over the whole registry.
InitParse ==
  /\ blocks \in SeqUpTo(ParseTokens, MaxParseTokens)
  /\ full_refresh \in BOOLEAN
  /\ no_state_update \in BOOLEAN
  /\ force \in BOOLEAN
  /\ dry_run = FALSE
  /\ environment \in Environments
  /\ log_level_override = FALSE
  /\ validator_fault = FALSE
  /\ console_log_level = "info"
  /\ parsed_blocks = <<>>
  /\ idx = -1
  /\ tracking_ctx = NoContext
  /\ tracker_contexts = <<>>
  /\ trace = <<>>
  /\ pending = <<>>
  /\ result = NotEnded
  /\ pc = "start"
  /\ first = <<>>

NextParse ==
  \/ ChangeConsoleLogLevel
  \/ ParseBlocks

SpecParse == InitParse /\ [][NextParse]_vars

\* ------------------------------------------------------ reading the trace
Positions == 1..Len(trace)

IsBlockEvent(e, event) == e.call = "track_block_event" /\ e.event = event
IsInitialized(e) == IsBlockEvent(e, "initialized")
IsRunFailure(e) == e.call = "run_settled" /\ e.outcome # "ok"
IsTrackerCall(e) == e.call \in {"track_command_event", "track_block_event"}
IsUnitCall(e) == e.call \in {"track_block_event", "run", "run_settled"}

\* The "initialized" events, the tracker's events, the unit-level calls.
Initialized == SelectSeq(trace, IsInitialized)
TrackerEvents == SelectSeq(trace, IsTrackerCall)
UnitCalls == SelectSeq(trace, IsUnitCall)

\* Number of block-level events `event` of unit k.
CountBlockEvents(k, event) ==
  Cardinality({p \in Positions :
                 IsBlockEvent(trace[p], event) /\ trace[p].unit = k})

\* What the parser answers for this command line.
Parsed == FindBlocks(blocks, 0, environment, full_refresh, no_state_update,
                     force)

\* The exception that is leaving, or has left, the engine.
Propagating == IF pc = "done" THEN result.error ELSE pending

\* ----------------------------------------------------------------- claims
\* C1: in a non-dry-run execution, once the run() of unit k has failed (with
\* a RunnerError or any other exception) no unit of greater index emits
\* "initialized" and no unit of greater index has run() invoked.
C1_AbortOnFirstFailure ==
  ~dry_run =>
    \A p \in Positions :
      IsRunFailure(trace[p]) =>
        \A q \in Positions :
          (IsInitialized(trace[q]) \/ trace[q].call = "run")
            => trace[q].unit <= trace[p].unit

C1_Witness ==
  /\ pc = "done"
  /\ ~dry_run
  /\ Len(parsed_blocks) >= 2
  /\ \E p \in Positions : IsRunFailure(trace[p]) /\ trace[p].unit = 0

\* C2: the units that emit "initialized" are a prefix of the parsed plan in
\* plan order (the j-th "initialized" event is the one of unit j-1, with
\* that unit's name and context), and the plan stays what the parser built.
C2_InitializedIsPlanPrefix ==
  /\ Len(Initialized) <= Len(parsed_blocks)
  /\ \A j \in 1..Len(Initialized) :
       /\ Initialized[j].unit = j - 1
       /\ Initialized[j].blk_name = BlkName(parsed_blocks[j])
       /\ Initialized[j].contexts = <<FromBlock(parsed_blocks[j])>>
  /\ pc \notin {"start", "parse"} =>
       parsed_blocks = (IF Parsed.error = <<>> THEN Parsed.units ELSE <<>>)

C2_Witness ==
  /\ pc = "done"
  /\ Len(Initialized) = 2
  /\ parsed_blocks[1] # parsed_blocks[2]

\* C3: in a non-dry-run execution the unit-level calls follow, unit after
\* unit, the order initialized, run() invoked, run() settled, then exactly
\* one of completed or failed; the "initialized" of unit N+1 comes directly
\* after the "completed" of unit N, so the run() calls never overlap.
C3_UnitsDoNotOverlap ==
  ~dry_run =>
    /\ \A p \in 1..Len(UnitCalls) :
         LET e == UnitCalls[p]
             PrevIs(call, event, unit) ==
               /\ p > 1
               /\ UnitCalls[p - 1].call = call
               /\ UnitCalls[p - 1].event = event
               /\ UnitCalls[p - 1].unit = unit
         IN  /\ IsInitialized(e) =>
                  \/ p = 1 /\ e.unit = 0
                  \/ PrevIs("track_block_event", "completed", e.unit - 1)
             /\ e.call = "run" =>
                  PrevIs("track_block_event", "initialized", e.unit)
             /\ e.call = "run_settled" => PrevIs("run", "", e.unit)
             /\ IsBlockEvent(e, "completed") =>
                  /\ PrevIs("run_settled", "", e.unit)
                  /\ UnitCalls[p - 1].outcome = "ok"
             /\ IsBlockEvent(e, "failed") =>
                  /\ PrevIs("run_settled", "", e.unit)
                  /\ UnitCalls[p - 1].outcome # "ok"
    /\ (pc = "done" /\ UnitCalls # <<>>) =>
         \/ IsBlockEvent(UnitCalls[Len(UnitCalls)], "completed")
         \/ IsBlockEvent(UnitCalls[Len(UnitCalls)], "failed")

C3_Witness ==
  /\ pc = "done"
  /\ ~dry_run
  /\ CountBlockEvents(0, "completed") = 1
  /\ CountBlockEvents(1, "failed") = 1

\* C4: in dry-run mode run() is never invoked and no "completed" or "failed"
\* block event is emitted, and when the command ends with a validated plan of
\* N units it has emitted exactly N "initialized" events, one per unit in
\* plan order.
C4_DryRunIteratesWholePlan ==
  dry_run =>
    /\ \A p \in Positions :
         /\ trace[p].call \notin {"run", "run_settled"}
         /\ ~IsBlockEvent(trace[p], "completed")
         /\ ~IsBlockEvent(trace[p], "failed")
    /\ (pc = "done" /\ ~validator_fault /\ parsed_blocks # <<>>
          /\ ValidateBlockSets(parsed_blocks)) =>
         /\ Len(Initialized) = Len(parsed_blocks)
         /\ \A j \in 1..Len(Initialized) :
              /\ Initialized[j].unit = j - 1
              /\ Initialized[j].blk_name = BlkName(parsed_blocks[j])

C4_Witness ==
  /\ pc = "done"
  /\ dry_run
  /\ Len(parsed_blocks) >= 2
  /\ Len(Initialized) = Len(parsed_blocks)

\* C5: validation of the whole plan comes before any unit: a unit-level call
\* is only made after validate_block_sets has returned true, and when
\* validate_block_sets rejects the plan the tracker receives the run-level
\* "aborted" event and nothing else, no run() is invoked and the command
\* ends with a CliError.
C5_ValidationBeforeExecution ==
  /\ \A p \in Positions :
       IsUnitCall(trace[p]) =>
         \E q \in 1..(p - 1) :
           trace[q].call = "validate_block_sets" /\ trace[q].outcome = "true"
  /\ (pc \notin {"start", "parse", "validate"} /\ parsed_blocks # <<>>
        /\ ~validator_fault /\ ~ValidateBlockSets(parsed_blocks)) =>
       /\ pc = "done"
       /\ UnitCalls = <<>>
       /\ Len(TrackerEvents) = 1
       /\ TrackerEvents[1].call = "track_command_event"
       /\ TrackerEvents[1].event = "aborted"
       /\ result = Raised(CliErrorPlain)

C5_Witness ==
  /\ pc = "done"
  /\ ~validator_fault
  /\ Len(parsed_blocks) >= 2
  /\ ValidateBlockSets(<<parsed_blocks[1]>>)
  /\ ~ValidateBlockSets(parsed_blocks)

\* C6: when the run() of unit k raises a RunnerError, exactly one "failed"
\* block event is emitted for unit k before the error leaves the engine, the
\* error that leaves is a CliError whose cause is that RunnerError, and no
\* unit after k is started.
C6_RunnerErrorIsWrapped ==
  \A p \in Positions :
    (trace[p].call = "run_settled" /\ trace[p].outcome = "RunnerError") =>
      LET k == trace[p].unit
      IN  /\ CountBlockEvents(k, "failed") <= 1
          /\ CountBlockEvents(k, "completed") = 0
          /\ \A q \in Positions : IsUnitCall(trace[q]) => trace[q].unit <= k
          /\ pc \in {"run_blocks_raised", "done"} =>
               /\ CountBlockEvents(k, "failed") = 1
               /\ Len(Propagating) = 1
               /\ Propagating[1].type = "CliError"
               /\ Propagating[1].cause = trace[p].error
               /\ trace[p].error[1].type = "RunnerError"

C6_Witness ==
  /\ pc = "done"
  /\ Len(parsed_blocks) >= 2
  /\ \E p \in Positions :
       /\ trace[p].call = "run_settled"
       /\ trace[p].outcome = "RunnerError"
       /\ trace[p].unit = 0
  /\ result.how = "raised"

\* C7: when the run() of unit k raises an exception that is not a
\* RunnerError, exactly one "failed" block event is emitted for unit k before
\* the error leaves the engine, and the error that leaves the engine and the
\* command is the original exception itself, not a CliError.
C7_OtherErrorPropagatesUnchanged ==
  \A p \in Positions :
    (trace[p].call = "run_settled" /\ trace[p].outcome = "Exception") =>
      LET k == trace[p].unit
      IN  /\ CountBlockEvents(k, "failed") <= 1
          /\ CountBlockEvents(k, "completed") = 0
          /\ pc \in {"run_blocks_raised", "done"} =>
               /\ CountBlockEvents(k, "failed") = 1
               /\ Propagating = trace[p].error
               /\ Propagating[1].type # "CliError"
               /\ Propagating[1].origin = k

C7_Witness ==
  /\ pc = "done"
  /\ \E p \in Positions :
       /\ trace[p].call = "run_settled"
       /\ trace[p].outcome = "Exception"
       /\ trace[p].unit = 1
  /\ result.how = "raised"

\* C8: a unit has a "completed" block event if and only if its run()
\* returned: every "completed" directly follows the successful return of
\* that unit's run(), every successful return is directly followed by that
\* unit's "completed", no unit has both "completed" and "failed", and when a
\* unit has failed all earlier units still have their "completed" event.
C8_CompletedIffRunReturned ==
  /\ \A p \in Positions :
       IsBlockEvent(trace[p], "completed") =>
         /\ p > 1
         /\ trace[p - 1].call = "run_settled"
         /\ trace[p - 1].outcome = "ok"
         /\ trace[p - 1].unit = trace[p].unit
  /\ \A p \in Positions :
       (trace[p].call = "run_settled" /\ trace[p].outcome = "ok") =>
         /\ pc = "done" => p < Len(trace)
         /\ p < Len(trace) =>
              /\ IsBlockEvent(trace[p + 1], "completed")
              /\ trace[p + 1].unit = trace[p].unit
  /\ \A k \in 0..(Len(parsed_blocks) - 1) :
       /\ CountBlockEvents(k, "completed") + CountBlockEvents(k, "failed") <= 1
       /\ CountBlockEvents(k, "failed") = 1 =>
            \A i \in 0..(k - 1) : CountBlockEvents(i, "completed") = 1

C8_Witness ==
  /\ pc = "done"
  /\ CountBlockEvents(0, "completed") = 1
  /\ CountBlockEvents(1, "completed") = 1
  /\ CountBlockEvents(2, "failed") = 1

\* C9: when the parser raises, the only call the command makes on a
\* collaborator is the run-level "aborted" event: no block-level event, no
\* validation, no run(); no plan is kept and the command ends by raising the
\* parser's error.
C9_ParserErrorAborts ==
  /\ pc \in {"start", "parse"} => trace = <<>>
  /\ (Parsed.error # <<>> /\ pc \notin {"start", "parse"}) =>
       /\ pc = "done"
       /\ Len(trace) = 1
       /\ trace[1].call = "track_command_event"
       /\ trace[1].event = "aborted"
       /\ parsed_blocks = <<>>
       /\ result = Raised(Parsed.error[1])

C9_Witness ==
  /\ pc = "done"
  /\ Len(blocks) >= 2
  /\ blocks[1] \in CommandTokens
  /\ Parsed.error # <<>>

\* What an invocation shows of its parse and validation once it is past
\* validation or has ended before it.
PastValidation == pc \in {"for", "done"}

\* C10 (as amended): for the same tokens, flags and environment the dry-run
\* invocation builds the same plan, makes the same calls up to the end of
\* validation and reaches the same outcome there (the same abort, with the
\* same error, or the same pass) as the invocation without --dry-run.
C10_SamePlanAndOutcome ==
  (first # <<>> /\ PastValidation) =>
    /\ parsed_blocks = first[1].parsed_blocks
    /\ trace = first[1].trace
    /\ result = first[1].result
    /\ pc = first[1].pc

C10_Witness ==
  /\ first # <<>>
  /\ dry_run
  /\ pc = "for"
  /\ Len(parsed_blocks) = 2
  /\ first[1].pc = "for"

\* C10 (as claimed): the dry_run flag influences only what happens after
\* validation has passed, so up to there the two invocations agree on
\* everything, the console log level included.
C10_DryRunOnlyAfterValidation ==
  (first # <<>> /\ PastValidation) =>
    /\ C10_SamePlanAndOutcome
    /\ console_log_level = first[1].console_log_level

\* The exit codes an exception gives access to: its own and those of the
\* exceptions it was raised from.
RECURSIVE ExitCodesOf(_)
ExitCodesOf(err) ==
  {err.exitcodes} \cup (IF err.cause = <<>> THEN {} ELSE ExitCodesOf(err.cause[1]))

\* The texts that would name unit k in a message: its index or the name of
\* one of its plugins.
NamesOfUnit(k) ==
  {ToString(k), ToString(k + 1)}
    \cup {parsed_blocks[k + 1].blocks[i] :
            i \in 1..Len(parsed_blocks[k + 1].blocks)}

\* C11: when unit k fails with a RunnerError carrying exit codes, the error
\* the command raises names unit k in its message and includes those exit
\* codes (in its message, or through the exception it was raised from).
C11_ErrorNamesUnitAndExitCodes ==
  \A p \in Positions :
    (pc = "done" /\ trace[p].call = "run_settled"
       /\ trace[p].outcome = "RunnerError") =>
      LET k == trace[p].unit
          codes == trace[p].error[1].exitcodes
          err == result.error[1]
      IN  /\ \E i \in 1..Len(err.message) : err.message[i] \in NamesOfUnit(k)
          /\ \/ codes \in ExitCodesOf(err)
             \/ \E i \in 1..Len(err.message) : err.message[i] = ToString(codes)

\* ------------------------------------------------------ claims on the plan
\* The command is past the parser and the parser gave a plan.
PlanBuilt == pc \notin {"start", "parse"} /\ Parsed.error = <<>>

\* Token t starts an extractor/loader pair.
IsPairAt(t) ==
  /\ t < Len(blocks)
  /\ blocks[t] \in Extractors
  /\ blocks[t + 1] \in Loaders

\* Position in the plan of the unit that begins at token t of a command line
\* the parser accepts: every loader before t was taken into the unit of the
\* extractor in front of it.
UnitOfToken(t) ==
  t - Cardinality({u \in 1..(t - 1) : blocks[u] \in Loaders})

\* C12: with an active environment E every extractor/loader pair (e, l) of
\* the token list yields one pipeline unit whose state id is "E:e-to-l", and
\* these units are in the plan in the order of their pairs; tap-a target-b
\* tap-c target-d under prod gives prod:tap-a-to-target-b and then
\* prod:tap-c-to-target-d.
C12_StateIdPerPair ==
  (PlanBuilt /\ environment # "") =>
    /\ \A t \in 1..Len(blocks) :
         IsPairAt(t) =>
           /\ UnitOfToken(t) \in 1..Len(parsed_blocks)
           /\ parsed_blocks[UnitOfToken(t)].type = "BlockSet"
           /\ parsed_blocks[UnitOfToken(t)].state_id =
                environment \o ":" \o blocks[t] \o "-to-" \o blocks[t + 1]
    /\ Cardinality({i \in 1..Len(parsed_blocks) :
                      parsed_blocks[i].state_id # ""})
         = Cardinality({t \in 1..Len(blocks) : IsPairAt(t)})
    /\ (blocks = <<"tap-a", "target-b", "tap-c", "target-d">>
          /\ environment = "prod") =>
         /\ Len(parsed_blocks) = 2
         /\ parsed_blocks[1].state_id = "prod:tap-a-to-target-b"
         /\ parsed_blocks[2].state_id = "prod:tap-c-to-target-d"

C12_Witness ==
  /\ PlanBuilt
  /\ environment = "prod"
  /\ blocks = <<"tap-a", "target-b", "tap-c", "target-d">>
  /\ Len(parsed_blocks) = 2

\* C13: for a fixed environment two pipeline units built from distinct
\* (extractor, loader) pairs have distinct state ids, whatever names the
\* registry holds, names containing "-to-" included.
C13_StateIdInjective ==
  (PlanBuilt /\ environment # "") =>
    \A i, j \in 1..Len(parsed_blocks) :
      (/\ parsed_blocks[i].type = "BlockSet"
       /\ parsed_blocks[j].type = "BlockSet"
       /\ Len(parsed_blocks[i].blocks) = 2
       /\ Len(parsed_blocks[j].blocks) = 2
       /\ parsed_blocks[i].blocks # parsed_blocks[j].blocks)
        => parsed_blocks[i].state_id # parsed_blocks[j].state_id

\* The token list is made of extractor/loader pairs only.
IsAlternating(toks) ==
  /\ Len(toks) % 2 = 0
  /\ \A i \in 1..Len(toks) :
       IF i % 2 = 1 THEN toks[i] \in Extractors ELSE toks[i] \in Loaders

\* C14: a token list made of alternating extractor/loader pairs is parsed
\* into exactly len(tokens)/2 pipeline units, the i-th unit holding the i-th
\* extractor and the i-th loader.
C14_OneUnitPerPair ==
  (pc \notin {"start", "parse"} /\ IsAlternating(blocks)) =>
    /\ Parsed.error = <<>>
    /\ Len(parsed_blocks) * 2 = Len(blocks)
    /\ \A i \in 1..Len(parsed_blocks) :
         /\ parsed_blocks[i].type = "BlockSet"
         /\ parsed_blocks[i].blocks = <<blocks[2 * i - 1], blocks[2 * i]>>

C14_Witness ==
  /\ pc \notin {"start", "parse"}
  /\ IsAlternating(blocks)
  /\ Len(blocks) = 4
  /\ blocks[1] # blocks[3]
  /\ Len(parsed_blocks) = 2

\* C15: in a token list the parser accepts, every plugin:command token
\* yields exactly one command unit, at the position of the token among the
\* units, holding that plugin and command; no command plugin is inside a
\* pipeline unit.
C15_CommandUnitPerToken ==
  PlanBuilt =>
    /\ \A t \in 1..Len(blocks) :
         blocks[t] \in CommandTokens =>
           /\ UnitOfToken(t) \in 1..Len(parsed_blocks)
           /\ parsed_blocks[UnitOfToken(t)].type = "PluginCommandBlock"
           /\ parsed_blocks[UnitOfToken(t)].blocks = <<PluginOf(blocks[t])>>
           /\ parsed_blocks[UnitOfToken(t)].command = CommandOf(blocks[t])
    /\ Cardinality({i \in 1..Len(parsed_blocks) :
                      parsed_blocks[i].type = "PluginCommandBlock"})
         = Cardinality({t \in 1..Len(blocks) : blocks[t] \in CommandTokens})
    /\ \A i \in 1..Len(parsed_blocks) :
         parsed_blocks[i].type = "BlockSet" =>
           \A n \in 1..Len(parsed_blocks[i].blocks) :
             parsed_blocks[i].blocks[n] \in Extractors \cup Loaders

C15_Witness ==
  /\ PlanBuilt
  /\ Len(blocks) = 4
  /\ blocks[1] \in CommandTokens
  /\ IsPairAt(2)
  /\ blocks[4] \in CommandTokens
  /\ Len(parsed_blocks) = 3

\* ---------------------------------------------------- claims on tracking
\* C16: every block-level event is emitted with the tracking context of
\* exactly its own unit attached, and with nothing else attached; every other
\* call (run(), a run-level event, the validator, the legacy tracker) is
\* made with no context attached, and a context is attached only between
\* entering and leaving the with block of one emission.
C16_ContextScopedToEvent ==
  /\ \A p \in Positions :
       IF trace[p].call = "track_block_event"
         THEN trace[p].contexts =
                <<FromBlock(parsed_blocks[trace[p].unit + 1])>>
         ELSE trace[p].contexts = <<>>
  /\ tracker_contexts # <<>> =>
       /\ pc \in {"track_initialized", "exit_initialized",
                  "track_failed_runner", "exit_failed_runner",
                  "track_failed_bare", "exit_failed_bare",
                  "track_completed", "exit_completed"}
       /\ tracker_contexts = <<FromBlock(CurrentBlk)>>
  /\ pc \in {"await_run", "done"} => tracker_contexts = <<>>

C16_Witness ==
  /\ pc = "await_run"
  /\ idx = 1
  /\ FromBlock(parsed_blocks[1]) # FromBlock(parsed_blocks[2])
  /\ \E p \in Positions :
       /\ IsInitialized(trace[p])
       /\ trace[p].unit = 1
       /\ trace[p].contexts = <<FromBlock(parsed_blocks[2])>>

\* --------------------------------------------------- claims on the engine
\* The engine has left its loop: Completed (run_blocks_returned) or Aborted
\* (run_blocks_raised), or the command has ended.
EngineEnded == pc \in {"run_blocks_raised", "run_blocks_returned", "done"}

\* Number of invocations of run().
RunInvocations == Cardinality({p \in Positions : trace[p].call = "run"})

\* C17: as every run() settles, every execution ends (Completed or Aborted);
\* run() is invoked at most N times for a plan of N units, the engine goes
\* from unit i only to unit i+1, and once the engine has ended no further
\* block-level event is emitted and no further run() is invoked.
C17_ReachesCompletedOrAborted ==
  /\ <>(pc = "done" /\ result.how \in {"returned", "raised"})
  /\ [](RunInvocations <= Len(parsed_blocks))
  /\ [][idx' \in {idx, idx + 1}]_vars
  /\ [][EngineEnded => (EngineEnded' /\ UnitCalls' = UnitCalls)]_vars

C17_Witness ==
  /\ pc = "done"
  /\ ~dry_run
  /\ Len(parsed_blocks) = 3
  /\ RunInvocations = 3
  /\ result.how = "raised"

\* ------------------------------------------------ claims on the run level
IsCommandEvent(e, event) == e.call = "track_command_event" /\ e.event = event

\* Positions of the run-level events.
CommandEvents == {p \in Positions : trace[p].call = "track_command_event"}

\* C18: every invocation emits exactly one run-level event, one of aborted,
\* failed and completed, on every path, and emits it after every block-level
\* event.
C18_ExactlyOneRunLevelEvent ==
  /\ Cardinality(CommandEvents) <= 1
  /\ \A p \in CommandEvents :
       /\ trace[p].event \in {"aborted", "failed", "completed"}
       /\ \A q \in Positions : trace[q].call = "track_block_event" => q < p
  /\ pc = "done" => Cardinality(CommandEvents) = 1

\* C19: the run-level "completed" event and track_meltano_run come only
\* after every unit of the plan was processed without failure (all
\* "completed" in a real run, all "initialized" in a dry run), with
\* track_meltano_run directly after "completed"; when a unit fails the
\* run-level event is "failed", emitted after that unit's "failed" block
\* event, and track_meltano_run is not called.
C19_CompletedOnlyAfterAllUnits ==
  /\ \A p \in Positions :
       (IsCommandEvent(trace[p], "completed")
          \/ trace[p].call = "track_meltano_run") =>
         /\ \A q \in Positions : ~IsRunFailure(trace[q])
         /\ \A k \in 0..(Len(parsed_blocks) - 1) :
              \E q \in 1..(p - 1) :
                /\ IsBlockEvent(trace[q],
                     IF dry_run THEN "initialized" ELSE "completed")
                /\ trace[q].unit = k
  /\ \A p \in Positions :
       trace[p].call = "track_meltano_run" =>
         p > 1 /\ IsCommandEvent(trace[p - 1], "completed")
  /\ (pc = "done" /\ result = Returned /\ parsed_blocks # <<>>) =>
       /\ IsCommandEvent(trace[Len(trace) - 1], "completed")
       /\ trace[Len(trace)].call = "track_meltano_run"
  /\ \A p \in Positions :
       IsRunFailure(trace[p]) =>
         /\ \A q \in Positions :
              /\ ~IsCommandEvent(trace[q], "completed")
              /\ trace[q].call # "track_meltano_run"
         /\ pc = "done" =>
              /\ IsCommandEvent(trace[Len(trace)], "failed")
              /\ IsBlockEvent(trace[Len(trace) - 1], "failed")
              /\ trace[Len(trace) - 1].unit = trace[p].unit

C19_Witness ==
  /\ pc = "done"
  /\ CountBlockEvents(0, "completed") = 1
  /\ \E p \in Positions : IsRunFailure(trace[p]) /\ trace[p].unit = 1
  /\ IsCommandEvent(trace[Len(trace)], "failed")

\* C20: when the parser gives an empty plan the command emits the run-level
\* "aborted" event and returns without raising; the validator is not called,
\* no block-level event is emitted, no run() is invoked, and neither the
\* run-level "completed" event nor track_meltano_run occurs.
C20_EmptyPlanAborts ==
  (Parsed.error = <<>> /\ Parsed.units = <<>> /\ pc \notin {"start", "parse"})
    =>
    /\ pc = "done"
    /\ Len(trace) = 1
    /\ IsCommandEvent(trace[1], "aborted")
    /\ result = Returned

C20_Witness ==
  /\ pc = "done"
  /\ Parsed.error = <<>>
  /\ Parsed.units = <<>>
  /\ result = Returned

====
